---- MODULE Spec2Model ----
(***************************************************************************)
(* State-machine model of the 3D gallery (ShaharFullStack/Gallery).        *)
(*                                                                         *)
(* Real numbers are fixed point with denominator Scale: world units,       *)
(* radians, opacities and light intensities are all multiplied by Scale.   *)
(* Times are in milliseconds.  Model ids are the gallery indices (item i   *)
(* of galleryData has id i); the null activeModelId is NoModel.            *)
(*                                                                         *)
(* controls.js holds two Controls classes.  Spec is the build with the     *)
(* zoom-disabled one, from the start of Gallery3D.loadModels.  SpecCamera  *)
(* is the build with the other one, from the end of a loadModels in which  *)
(* every model loaded.  SpecDrag is the pointer-driven rotation of         *)
(* ModelLoader under the frame loop; SpecSpin is its mouse-only part,      *)
(* SpecDragSwitch a drag with keyboard navigation, SpecFade keyboard       *)
(* navigation under a frame loop whose page can be hidden, and SpecResume  *)
(* mouse drags with the timers that resume the camera's auto-rotation.     *)
(* SpecOwner is the drag state of MouseInteraction between item switches,  *)
(* SpecMessages the message queue of UIManager with its timers, and        *)
(* SpecScroll the throttled scroll handler (window resizes of the          *)
(* zoom-enabled build are part of SpecScroll).                             *)
(***************************************************************************)
EXTENDS Integers, Sequences, FiniteSets, TLC

(* ------------------------------ bounds -------------------------------- *)
MaxMessages == 3         \* messages requested by clicks and error events
MaxHideTimers == 2       \* callbacks of hideError waiting at the same time
NumItems == 3            \* galleryData.length
MaxFrames == 2           \* frames processed in the drag specification

(* ----------------------- fixed point and helpers ---------------------- *)
Scale == 10 * 10 * 10
One == Scale
NoModel == 0 - 1
Items == 0 .. (NumItems - 1)

Abs(x) == IF x < 0 THEN 0 - x ELSE x
Min(a, b) == IF a < b THEN a ELSE b
Max(a, b) == IF a > b THEN a ELSE b

\* x / d rounded toward zero, d > 0
Quot(x, d) == IF x >= 0 THEN x \div d ELSE 0 - ((0 - x) \div d)

Vec(x, y, z) == [x |-> x, y |-> y, z |-> z]

\* THREE.MathUtils.lerp(x, y, t) = (1 - t) * x + t * y, t scaled by Scale
lerp(x, y, t) == x + Quot((y - x) * t, Scale)

\* Vector3.lerpVectors(v1, v2, alpha)
lerpVectors(v1, v2, alpha) ==
    Vec(lerp(v1.x, v2.x, alpha), lerp(v1.y, v2.y, alpha), lerp(v1.z, v2.z, alpha))

(* --------------------------- configuration ---------------------------- *)
ScrollHeight == 1000      \* document scrollHeight minus window.innerHeight, px
ScrollTops == {0, 250, 500, 750, 1000}
CameraDistance == 7 * Scale          \* settings.cameraDistance
SpotlightIntensity == 2 * Scale      \* spotlightConfig.intensity
MobileBreakpoint == 768              \* window.innerWidth <= 768
WindowWidths == {1200}               \* viewport widths the browser reports
RandomTilts == {100}                 \* (Math.random() - 0.5) * 0.2
RandomYaws == {0}                    \* Math.random() * Math.PI * 2
FrameGaps == {500, 1000}             \* time between two animation callbacks

VARIABLES
    galleryPhase,       \* "loading" while Gallery3D.loadModels runs, then "ready"
    loadingIndex,       \* loop variable i of loadModels (model being awaited)
    currentIndex,       \* Gallery3D.currentIndex
    scrollCurrentIndex, \* ScrollHandler.currentIndex
    activeModelId,      \* ModelLoader.activeModelId
    modelStates,        \* ModelLoader.modelStates (domain: ids that have a state)
    spotlights,         \* ModelLoader.spotlights (domain: ids that have a light)
    innerWidth,         \* window.innerWidth
    controlsVariant,    \* which of the two Controls classes is the build's
    isAnimatingCamera,  \* Controls.isAnimatingCamera
    isAutoRotating,     \* Controls.isAutoRotating
    cameraPosition,     \* camera.position
    orbitTarget,        \* orbitControls.target
    cameraAnimations,   \* closures of animateCameraTo waiting in requestAnimationFrame
    mouseInteraction,   \* MouseInteraction fields
    manualRotation,     \* ModelLoader.manualRotation
    autoRotation,       \* ModelLoader.autoRotation
    frames,             \* number of frames processed (drag specification)
    dragLog,            \* history: the mouse samples of the drag in progress
    lastCalls,          \* activation calls and notifications made by the last handler
    unloadedRequested,  \* history: switchToItem was asked for a model not loaded
    resumeTimerPending, \* a 2 s timer of onModelInteract('endInteraction') is waiting
    uiManager,          \* UIManager: message fields, element #errorMessage, timers
    isThrottled,        \* ScrollHandler.isThrottled (its 100 ms timer is waiting)
    pageYOffset,        \* window.pageYOffset
    scrollProgress      \* height in % that updateScrollProgress last computed

vars == <<galleryPhase, loadingIndex, currentIndex, scrollCurrentIndex,
          activeModelId, modelStates, spotlights, innerWidth, controlsVariant,
          isAnimatingCamera, isAutoRotating, cameraPosition, orbitTarget,
          cameraAnimations, mouseInteraction, manualRotation,
          autoRotation, frames, dragLog, lastCalls, unloadedRequested,
          resumeTimerPending, uiManager, isThrottled, pageYOffset, scrollProgress>>

scrollVars == <<isThrottled, pageYOffset, scrollProgress>>
galleryVars == <<galleryPhase, loadingIndex, currentIndex, scrollCurrentIndex>>
loaderVars == <<activeModelId, modelStates, spotlights>>
cameraVars == <<isAnimatingCamera, cameraPosition, orbitTarget, cameraAnimations>>
dragVars == <<manualRotation, autoRotation, frames, dragLog>>
switchVars == <<currentIndex, loaderVars, isAnimatingCamera, cameraAnimations,
                mouseInteraction, unloadedRequested>>

Call(event, index) == [event |-> event, index |-> index]
Events(calls) == { calls[n].event : n \in 1 .. Len(calls) }

(* ============================ ModelLoader ============================= *)

isMobileAt(width) == width <= MobileBreakpoint
isMobile == isMobileAt(innerWidth)

\* ModelLoader.calculateSceneLayout: modelXOffset chosen from totalModels
modelXOffset ==
    IF NumItems <= 3 THEN 6 * Scale
    ELSE IF NumItems <= 6 THEN 5 * Scale
    ELSE IF NumItems <= 10 THEN (45 * Scale) \div 10
    ELSE 4 * Scale

\* ModelLoader.getModelPosition (and the targetX of positionModel) at a
\* given window.innerWidth
modelPositionAt(width, index) ==
    IF isMobileAt(width) THEN 0
    ELSE IF index % 2 = 0 THEN modelXOffset ELSE 0 - modelXOffset

getModelPosition(index) == modelPositionAt(innerWidth, index)

\* the entry ModelLoader.loadModel stores in modelStates before loading starts
loadModel(index, manualTilt, manualYaw, autoTilt, autoYaw) ==
    [ modelObject    |-> FALSE,
      targetOpacity  |-> IF index = 0 THEN One ELSE 0,
      currentOpacity |-> IF index = 0 THEN One ELSE 0,
      visible        |-> (index = 0),
      targetX        |-> 0,
      currentX       |-> 0,
      objectVisible  |-> FALSE,
      positionX      |-> 0,
      rotation       |-> [x |-> 0, y |-> 0],
      manualRotation |-> [baseRotationX |-> manualTilt, baseRotationY |-> manualYaw],
      autoRotation   |-> [currentRotationY |-> 0,
                          baseRotationX |-> autoTilt, baseRotationY |-> autoYaw] ]

\* ModelLoader.createSpotlightForModel: the entry stored in spotlights
createSpotlightForModel(index, modelX) ==
    [ originalIntensity |-> SpotlightIntensity,
      currentIntensity  |-> IF index = 0 THEN SpotlightIntensity ELSE 0,
      targetIntensity   |-> IF index = 0 THEN SpotlightIntensity ELSE 0,
      positionX         |-> modelX,
      targetPositionX   |-> modelX ]

\* ModelLoader.processModel (success callback of the loader), with positionModel
processModel(states, active, spots, index) ==
    LET st == states[index]
        x  == getModelPosition(index)
        placed == [st EXCEPT !.modelObject = TRUE,
                             !.rotation = [x |-> st.manualRotation.baseRotationX,
                                           y |-> st.manualRotation.baseRotationY],
                             !.targetX = x, !.currentX = x, !.positionX = x,
                             !.objectVisible = (index = 0)]
    IN [ modelStates   |-> [states EXCEPT ![index] = placed],
         activeModelId |-> IF index = 0 THEN index ELSE active,
         spotlights    |-> [i \in DOMAIN spots \cup {index} |->
                               IF i = index THEN createSpotlightForModel(index, x)
                               ELSE spots[i]] ]

\* activateSpotlight without the loop that turns every spotlight off
activateSpotlightKeepsOthers(spots, modelId) ==
    [i \in DOMAIN spots |->
        IF i = modelId
        THEN [spots[i] EXCEPT !.targetIntensity = spots[i].originalIntensity]
        ELSE spots[i]]

\* ModelLoader.activateSpotlight
activateSpotlight(spots, modelId) ==
    [i \in DOMAIN spots |->
        IF i = modelId
        THEN [spots[i] EXCEPT !.targetIntensity = spots[i].originalIntensity]
        ELSE [spots[i] EXCEPT !.targetIntensity = 0]]

\* showModel without the assignment to activeModelId
showModelKeepsActive(states, active, spots, modelId) ==
    LET hidden == IF active # NoModel /\ active \in DOMAIN states
                  THEN [states EXCEPT ![active].targetOpacity = 0,
                                      ![active].visible = FALSE]
                  ELSE states
        shown  == IF modelId \in DOMAIN hidden
                  THEN [hidden EXCEPT ![modelId].targetOpacity = One,
                                      ![modelId].visible = TRUE,
                                      ![modelId].objectVisible =
                                          IF hidden[modelId].modelObject THEN TRUE ELSE @]
                  ELSE hidden
    IN [ modelStates   |-> shown,
         activeModelId |-> active,
         spotlights    |-> activateSpotlight(spots, modelId) ]

\* ModelLoader.showModel
showModel(states, active, spots, modelId) ==
    LET hidden == IF active # NoModel /\ active \in DOMAIN states
                  THEN [states EXCEPT ![active].targetOpacity = 0,
                                      ![active].visible = FALSE]
                  ELSE states
        shown  == IF modelId \in DOMAIN hidden
                  THEN [hidden EXCEPT ![modelId].targetOpacity = One,
                                      ![modelId].visible = TRUE,
                                      ![modelId].objectVisible =
                                          IF hidden[modelId].modelObject THEN TRUE ELSE @]
                  ELSE hidden
    IN [ modelStates   |-> shown,
         activeModelId |-> modelId,
         spotlights    |-> activateSpotlight(spots, modelId) ]

Loaded(index) == index \in DOMAIN modelStates /\ modelStates[index].modelObject

(* ============================== Controls ============================== *)

\* Controls.easeInOutCubic, argument and result scaled by Scale
easeInOutCubic(t) ==
    IF 2 * t < Scale
    THEN Quot(4 * t * t * t, Scale * Scale)
    ELSE One - Quot((2 * Scale - 2 * t) * (2 * Scale - 2 * t) * (2 * Scale - 2 * t),
                    2 * Scale * Scale)

\* animateCameraTo without the isAnimatingCamera test
animateCameraToUnguarded(targetPosition, targetLookAt, duration) ==
    /\ isAnimatingCamera' = TRUE
    /\ cameraAnimations' = cameraAnimations \cup
          {[ startPosition  |-> cameraPosition,
             startLookAt    |-> orbitTarget,
             targetPosition |-> targetPosition,
             targetLookAt   |-> targetLookAt,
             duration       |-> duration,
             elapsed        |-> 0 ]}

\* Controls.animateCameraTo: starts one requestAnimationFrame chain unless busy.
\* A closure keeps, for its startTime, the time elapsed since then
\* (Date.now() - startTime as of its latest callback).
animateCameraTo(targetPosition, targetLookAt, duration) ==
    IF isAnimatingCamera
    THEN UNCHANGED <<isAnimatingCamera, cameraAnimations>>
    ELSE /\ isAnimatingCamera' = TRUE
         /\ cameraAnimations' = cameraAnimations \cup
               {[ startPosition  |-> cameraPosition,
                  startLookAt    |-> orbitTarget,
                  targetPosition |-> targetPosition,
                  targetLookAt   |-> targetLookAt,
                  duration       |-> duration,
                  elapsed        |-> 0 ]}

\* destination computed by Controls.updateCameraForModel / resetView
cameraOffset(width, modelIndex) ==
    IF isMobileAt(width) THEN 0 ELSE Quot(modelPositionAt(width, modelIndex) * 2, 10)

framingPosition(width, modelIndex) ==
    IF controlsVariant = "zoomDisabled"
    THEN cameraPosition
    ELSE Vec(cameraOffset(width, modelIndex), cameraPosition.y, cameraPosition.z)

framingLookAt(width, modelIndex) ==
    IF controlsVariant = "zoomDisabled"
    THEN Vec(0, 0, 0)
    ELSE Vec(modelPositionAt(width, modelIndex), 0, 0)

framingDuration ==
    IF controlsVariant = "zoomDisabled" THEN 800
    ELSE IF NumItems > 6 THEN 1500 ELSE 1000

\* Controls.updateCameraForModel
updateCameraForModel(width, modelIndex) ==
    animateCameraTo(framingPosition(width, modelIndex),
                    framingLookAt(width, modelIndex), framingDuration)

resetPosition(modelIndex) ==
    IF controlsVariant = "zoomDisabled"
    THEN Vec(0, 1 * Scale, 0)
    ELSE Vec(cameraOffset(innerWidth, modelIndex), 1 * Scale, 8 * Scale)

resetLookAt(modelIndex) ==
    IF controlsVariant = "zoomDisabled"
    THEN Vec(0, 0, 0)
    ELSE Vec(getModelPosition(modelIndex), 0, 0)

\* ModelLoader.resetManualRotation
resetManualRotation(mr) ==
    [mr EXCEPT !.targetRotationX = 0, !.targetRotationY = 0,
               !.currentRotationX = 0, !.currentRotationY = 0,
               !.velocityX = 0, !.velocityY = 0]

\* Controls.resetView
resetView(index) ==
    /\ animateCameraTo(resetPosition(index), resetLookAt(index), 1500)
    /\ orbitTarget' = resetLookAt(index)
    /\ manualRotation' = IF controlsVariant = "zoomDisabled"
                         THEN resetManualRotation(manualRotation)
                         ELSE manualRotation
    /\ UNCHANGED cameraPosition

(* ========================== MouseInteraction ========================== *)

\* reset that leaves activeModel as it was
resetKeepsActiveModel(mi) ==
    [mi EXCEPT !.isHovering = FALSE, !.isDragging = FALSE, !.isInteracting = FALSE]

\* MouseInteraction.reset
reset(mi) ==
    [mi EXCEPT !.isHovering = FALSE, !.isDragging = FALSE,
               !.isInteracting = FALSE, !.activeModel = NoModel]

(* ============================= Gallery3D ============================== *)

\* what Gallery3D.switchToItem is asked and what it tells the UI
\* (updateProgressDots, updateModelInfo, updateInteractionArea)
switchToItemCalls(newIndex) ==
    <<Call("switchToItem", newIndex)>> \o
    (IF newIndex # currentIndex /\ newIndex >= 0 /\ newIndex < NumItems
     THEN <<Call("itemActivated", newIndex), Call("animateCameraTo", newIndex)>>
     ELSE <<>>)

\* switchToItem without the comparison against the current index
switchToItemAlways(newIndex) ==
    IF newIndex >= 0 /\ newIndex < NumItems
    THEN LET shown == showModel(modelStates, activeModelId, spotlights, newIndex)
         IN /\ currentIndex' = newIndex
            /\ modelStates' = shown.modelStates
            /\ activeModelId' = shown.activeModelId
            /\ spotlights' = shown.spotlights
            /\ updateCameraForModel(innerWidth, newIndex)
            /\ mouseInteraction' = reset(mouseInteraction)
            /\ unloadedRequested' = (unloadedRequested \/ ~Loaded(newIndex))
    ELSE UNCHANGED switchVars

\* Gallery3D.switchToItem
switchToItem(newIndex) ==
    IF newIndex # currentIndex /\ newIndex >= 0 /\ newIndex < NumItems
    THEN LET shown == showModel(modelStates, activeModelId, spotlights, newIndex)
         IN /\ currentIndex' = newIndex
            /\ modelStates' = shown.modelStates
            /\ activeModelId' = shown.activeModelId
            /\ spotlights' = shown.spotlights
            /\ updateCameraForModel(innerWidth, newIndex)
            /\ mouseInteraction' = reset(mouseInteraction)
            /\ unloadedRequested' = (unloadedRequested \/ ~Loaded(newIndex))
    ELSE UNCHANGED switchVars

\* navigateToItem going round from the first item to the last and back
navigateToItemWrapping(index) ==
    LET wrapped == (index + NumItems) % NumItems
    IN IF wrapped # currentIndex
       THEN /\ switchToItem(wrapped)
            /\ lastCalls' = <<Call("navigateToItem", index)>> \o switchToItemCalls(wrapped)
       ELSE /\ UNCHANGED switchVars
            /\ lastCalls' = <<Call("navigateToItem", index)>>

\* Gallery3D.navigateToItem (the gallery element of every item exists)
navigateToItem(index) ==
    IF index >= 0 /\ index < NumItems /\ index # currentIndex
    THEN /\ switchToItem(index)
         /\ lastCalls' = <<Call("navigateToItem", index)>> \o switchToItemCalls(index)
    ELSE /\ UNCHANGED switchVars
         /\ lastCalls' = <<Call("navigateToItem", index)>>

(* ============================ ScrollHandler =========================== *)

InnerHeight == 800
EntryRatios == {0, Scale \div 2}
EntryDistances == {0, 300}

\* one IntersectionObserverEntry as handleIntersection reads it
Entries ==
    { e \in [ itemIndex : Items, isIntersecting : BOOLEAN,
              intersectionRatio : EntryRatios, distanceFromCenter : EntryDistances ] :
        (~e.isIntersecting) => (e.intersectionRatio = 0 /\ e.distanceFromCenter = 0) }

Batches == { <<e>> : e \in Entries }

\* the visibility score of handleIntersection, scaled by Scale
visibility(entry) ==
    IF entry.isIntersecting
    THEN LET maxDistance == InnerHeight \div 2
             centerBoost == 1 - entry.distanceFromCenter * maxDistance
         IN entry.intersectionRatio * (1 + centerBoost)
    ELSE entry.intersectionRatio

\* the forEach of handleIntersection: index of the most visible entry, or NoModel
RECURSIVE mostVisibleEntry(_, _, _, _)
mostVisibleEntry(entries, i, maxVisibility, best) ==
    IF i > Len(entries) THEN best
    ELSE IF visibility(entries[i]) > maxVisibility
         THEN mostVisibleEntry(entries, i + 1, visibility(entries[i]), entries[i].itemIndex)
         ELSE mostVisibleEntry(entries, i + 1, maxVisibility, best)

\* ScrollHandler.setActiveItem, including the onItemChange callback
\* (Gallery3D.onItemChange -> switchToItem)
setActiveItem(index) ==
    IF index = scrollCurrentIndex
    THEN /\ UNCHANGED <<scrollCurrentIndex, switchVars>>
         /\ lastCalls' = <<Call("setActiveItem", index)>>
    ELSE /\ scrollCurrentIndex' = index
         /\ switchToItem(index)
         /\ lastCalls' = <<Call("setActiveItem", index), Call("onItemChange", index)>>
                            \o switchToItemCalls(index)

\* ScrollHandler.handleIntersection
handleIntersection(entries) ==
    LET k == mostVisibleEntry(entries, 1, 0, NoModel)
    IN IF k # NoModel /\ k # scrollCurrentIndex
       THEN setActiveItem(k)
       ELSE /\ UNCHANGED <<scrollCurrentIndex, switchVars>>
            /\ lastCalls' = <<>>

\* height in % that ScrollHandler.updateScrollProgress computes
updateScrollProgress(scrollTop) == Min((scrollTop * 100) \div ScrollHeight, 100)

\* ScrollHandler.handleScroll with the IntersectionObserver in place; the
\* page's scroll position is the one of the state the handler runs in
handleScroll(scrollTop) ==
    IF isThrottled
    THEN UNCHANGED <<isThrottled, scrollProgress>>
    ELSE /\ isThrottled' = TRUE
         /\ scrollProgress' = updateScrollProgress(scrollTop)

(* ============================= UIManager ============================== *)

NoMessage == 0
ErrorDuration == 5000     \* default duration of showError
SuccessDuration == 3000   \* default duration of showSuccess
HideDelay == 300          \* delay of the callback of hideError

\* UIManager after its constructor; requested, displayed, hideRequested and
\* fromQueue are history: number of messages requested so far (a message is
\* named by its number), the messages put on screen in order, whether
\* hideError has been called since the message on screen was put there, and
\* whether that message had waited in errorQueue
NoMessages ==
    [ isShowingError |-> FALSE,
      errorQueue     |-> <<>>,
      errorText      |-> NoMessage,   \* errorText.textContent
      display        |-> FALSE,       \* errorMessage.style.display is 'flex'
      show           |-> FALSE,       \* errorMessage has class 'show'
      type           |-> "error",     \* type in errorMessage.className
      errorTimeout   |-> FALSE,       \* the auto-hide timer is waiting
      hideTimers     |-> 0,           \* callbacks of hideError waiting
      errors         |-> 0,           \* performanceMetrics.errors
      requested      |-> 0,
      displayed      |-> <<>>,
      hideRequested  |-> FALSE,
      fromQueue      |-> FALSE ]

\* showError that puts a waiting message at the head of errorQueue
showErrorQueuesInFront(ui, message, type, duration) ==
    IF ui.isShowingError
    THEN [ui EXCEPT !.errorQueue =
            <<[message |-> message, type |-> type, duration |-> duration]>> \o @]
    ELSE [ui EXCEPT !.isShowingError = TRUE,
                    !.errors = @ + 1,
                    !.errorText = message,
                    !.show = TRUE,
                    !.display = TRUE,
                    !.type = type,
                    !.errorTimeout = TRUE,
                    !.displayed = Append(@, message),
                    !.hideRequested = FALSE,
                    !.fromQueue = FALSE]

\* UIManager.showError
showError(ui, message, type, duration) ==
    IF ui.isShowingError
    THEN [ui EXCEPT !.errorQueue =
            Append(@, [message |-> message, type |-> type, duration |-> duration])]
    ELSE [ui EXCEPT !.isShowingError = TRUE,
                    !.errors = @ + 1,
                    !.errorText = message,
                    !.show = TRUE,
                    !.display = TRUE,
                    !.type = type,
                    !.errorTimeout = TRUE,
                    !.displayed = Append(@, message),
                    !.hideRequested = FALSE,
                    !.fromQueue = FALSE]

\* UIManager.showSuccess
showSuccess(ui, message) == showError(ui, message, "success", SuccessDuration)

\* a caller's request: the message gets the next number
requestError(ui) ==
    showError([ui EXCEPT !.requested = @ + 1], ui.requested + 1, "error", ErrorDuration)

requestSuccess(ui) ==
    showSuccess([ui EXCEPT !.requested = @ + 1], ui.requested + 1)

\* UIManager.hideError up to its return
hideError(ui) ==
    [ui EXCEPT !.show = FALSE,
               !.hideTimers = @ + 1,
               !.errorTimeout = FALSE,
               !.hideRequested = TRUE]

\* the callback hideError hands to setTimeout
hideErrorCallback(ui) ==
    LET hidden == [ui EXCEPT !.display = FALSE,
                             !.isShowingError = FALSE,
                             !.hideTimers = @ - 1]
    IN IF hidden.errorQueue # <<>>
       THEN LET nextError == Head(hidden.errorQueue)
                shown == showError([hidden EXCEPT !.errorQueue = Tail(@)],
                                   nextError.message, nextError.type,
                                   nextError.duration)
            IN [shown EXCEPT !.fromQueue = TRUE]
       ELSE hidden

(* ============================== actions =============================== *)

NoInteraction ==
    [isHovering |-> FALSE, isDragging |-> FALSE, isInteracting |-> FALSE,
     activeModel |-> NoModel, mouseStart |-> [x |-> 0, y |-> 0]]

\* no sample of the drag in progress counted yet
NoDrag == [moves |-> 0, clamped |-> TRUE, targetAtDown |-> 0, sinceSample |-> 0]

\* the samples of the drag in progress are no longer counted
NoCount == [moves |-> 0, clamped |-> FALSE, targetAtDown |-> 0, sinceSample |-> 0]

ManualRotationInit ==
    [enabled |-> TRUE, isDragging |-> FALSE, lastMouseX |-> 0, lastMouseY |-> 0,
     velocityX |-> 0, velocityY |-> 0, targetRotationX |-> 0, targetRotationY |-> 0,
     currentRotationX |-> 0, currentRotationY |-> 0]

AutoRotationInit == [enabled |-> TRUE, speed |-> Scale \div 2, direction |-> 0 - 1]

\* the states loadModel can create for item index (its Math.random() draws)
NewModelStates(index) ==
    { loadModel(index, mt, my, at, ay) :
        mt \in RandomTilts, my \in RandomYaws, at \in RandomTilts, ay \in RandomYaws }

\* State when Gallery3D.init has built its modules and loadModels awaits item 0
Init ==
    /\ galleryPhase = "loading"
    /\ loadingIndex = 0
    /\ currentIndex = 0
    /\ scrollCurrentIndex = 0
    /\ activeModelId = NoModel
    /\ modelStates \in { (0 :> st) : st \in NewModelStates(0) }
    /\ spotlights = [i \in {} |-> 0]
    /\ innerWidth \in WindowWidths
    /\ controlsVariant = "zoomDisabled"
    /\ isAnimatingCamera = TRUE
    /\ isAutoRotating = TRUE
    /\ cameraPosition = Vec(0, 0, CameraDistance)
    /\ orbitTarget = Vec(0, 0, 0)
    /\ cameraAnimations = {}
    /\ mouseInteraction = NoInteraction
    /\ manualRotation = ManualRotationInit
    /\ autoRotation = AutoRotationInit
    /\ frames = 0
    /\ dragLog = NoDrag
    /\ lastCalls = <<>>
    /\ unloadedRequested = FALSE
    /\ resumeTimerPending = FALSE
    /\ uiManager = NoMessages
    /\ isThrottled = FALSE
    /\ pageYOffset = 0
    /\ scrollProgress = 0

\* the rest of Gallery3D.loadModels after the await on item loadingIndex:
\* either the next loadModel call or the activation of item 0
loadModelsContinue(states, active, spots) ==
    IF loadingIndex + 1 < NumItems
    THEN /\ \E st \in NewModelStates(loadingIndex + 1) :
               modelStates' = [i \in DOMAIN states \cup {loadingIndex + 1} |->
                                  IF i = loadingIndex + 1 THEN st ELSE states[i]]
         /\ activeModelId' = active
         /\ spotlights' = spots
         /\ loadingIndex' = loadingIndex + 1
         /\ UNCHANGED <<galleryPhase, currentIndex>>
    ELSE LET shown == showModel(states, active, spots, 0)
         IN /\ modelStates' = shown.modelStates
            /\ activeModelId' = shown.activeModelId
            /\ spotlights' = shown.spotlights
            /\ loadingIndex' = NumItems
            /\ galleryPhase' = "ready"
            /\ currentIndex' = 0

\* the loader's success callback for the awaited item, then loadModels goes on
LoadModelResolved ==
    /\ galleryPhase = "loading"
    /\ LET p == processModel(modelStates, activeModelId, spotlights, loadingIndex)
       IN loadModelsContinue(p.modelStates, p.activeModelId, p.spotlights)
    /\ lastCalls' = <<>>
    /\ UNCHANGED <<uiManager, scrollVars, unloadedRequested, resumeTimerPending,
                   scrollCurrentIndex, innerWidth, controlsVariant, cameraVars,
                   isAutoRotating, mouseInteraction, dragVars>>

\* a rejection that loadModels does not catch: init stops in its catch block
LoadModelRejectedUncaught ==
    /\ galleryPhase = "loading"
    /\ galleryPhase' = "failed"
    /\ lastCalls' = <<Call("showError", loadingIndex)>>
    /\ uiManager' = requestError(uiManager)
    /\ UNCHANGED <<scrollVars, unloadedRequested, resumeTimerPending,
                   loadingIndex, currentIndex,
                   loaderVars, scrollCurrentIndex, innerWidth, controlsVariant,
                   cameraVars, isAutoRotating, mouseInteraction, dragVars>>

\* the loader's error callback for the awaited item (caught by loadModels,
\* which reports it with uiManager.showError)
LoadModelRejected ==
    /\ galleryPhase = "loading"
    /\ loadModelsContinue(modelStates, activeModelId, spotlights)
    /\ lastCalls' = <<Call("showError", loadingIndex)>>
    /\ uiManager' = requestError(uiManager)
    /\ UNCHANGED <<scrollVars, unloadedRequested, resumeTimerPending,
                   scrollCurrentIndex, innerWidth,
                   controlsVariant, cameraVars, isAutoRotating, mouseInteraction,
                   dragVars>>

\* the IntersectionObserver callback
ObserverCallback ==
    /\ \E entries \in Batches : handleIntersection(entries)
    /\ UNCHANGED <<uiManager, scrollVars,
                   resumeTimerPending, galleryPhase, loadingIndex, innerWidth, controlsVariant,
                   isAutoRotating, cameraPosition, orbitTarget, dragVars>>

\* a direct call of ScrollHandler.setActiveItem
SetActiveItemCall ==
    /\ \E index \in Items : setActiveItem(index)
    /\ UNCHANGED <<uiManager, scrollVars,
                   resumeTimerPending, galleryPhase, loadingIndex, innerWidth, controlsVariant,
                   isAutoRotating, cameraPosition, orbitTarget, dragVars>>

\* Gallery3D.onKeyDown, ArrowUp / ArrowDown
ArrowKeyDown ==
    /\ galleryPhase = "ready"
    /\ \E step \in {0 - 1, 1} : navigateToItem(currentIndex + step)
    /\ UNCHANGED <<uiManager, scrollVars,
                   resumeTimerPending, galleryPhase, loadingIndex, scrollCurrentIndex, innerWidth,
                   controlsVariant, isAutoRotating, cameraPosition, orbitTarget,
                   dragVars>>

\* click on a progress dot (created by showControls once loading is over)
ProgressDotClick ==
    /\ galleryPhase = "ready"
    /\ \E index \in Items : navigateToItem(index)
    /\ UNCHANGED <<uiManager, scrollVars,
                   resumeTimerPending, galleryPhase, loadingIndex, scrollCurrentIndex, innerWidth,
                   controlsVariant, isAutoRotating, cameraPosition, orbitTarget,
                   dragVars>>

\* ModelLoader.updateModelPositions at the new width
updateModelPositions(states, width) ==
    [i \in DOMAIN states |->
        LET x == modelPositionAt(width, i)
        IN IF states[i].modelObject
           THEN [states[i] EXCEPT !.targetX = x, !.positionX = x, !.currentX = x]
           ELSE [states[i] EXCEPT !.targetX = x]]

\* ModelLoader.updateSpotlightForModel for every model updateModelPositions moved
updateSpotlightPositions(spots, states) ==
    [i \in DOMAIN spots |->
        IF i \in DOMAIN states /\ states[i].modelObject
        THEN [spots[i] EXCEPT !.positionX = states[i].positionX,
                              !.targetPositionX = states[i].positionX]
        ELSE spots[i]]

\* Gallery3D.onWindowResize (listener added once loading is over)
OnWindowResize ==
    /\ galleryPhase = "ready"
    /\ \E width \in WindowWidths :
          /\ innerWidth' = width
          /\ modelStates' = updateModelPositions(modelStates, width)
          /\ spotlights' = updateSpotlightPositions(spotlights, modelStates')
          /\ updateCameraForModel(width, currentIndex)
    /\ handleScroll(pageYOffset)
    /\ lastCalls' = <<Call("animateCameraTo", currentIndex)>>
    /\ UNCHANGED <<uiManager, pageYOffset, unloadedRequested, resumeTimerPending,
                   galleryVars, activeModelId, controlsVariant, isAutoRotating,
                   cameraPosition, orbitTarget, mouseInteraction, dragVars>>

\* the R key of Gallery3D.onKeyDown
ResetViewRequest ==
    /\ galleryPhase = "ready"
    /\ resetView(currentIndex)
    /\ UNCHANGED mouseInteraction
    /\ lastCalls' = <<Call("resetView", currentIndex),
                      Call("animateCameraTo", currentIndex)>>
    /\ UNCHANGED <<uiManager, scrollVars, unloadedRequested, resumeTimerPending,
                   galleryVars, loaderVars, innerWidth, controlsVariant,
                   isAutoRotating, autoRotation, frames, dragLog>>

\* the animation callback without the reset of isAnimatingCamera at the end
CameraAnimateKeepsFlag ==
    /\ \E c \in cameraAnimations, gap \in FrameGaps :
          LET elapsed  == c.elapsed + gap
              progress == Min(Quot(elapsed * Scale, c.duration), One)
              eased    == easeInOutCubic(progress)
          IN /\ cameraPosition' = lerpVectors(c.startPosition, c.targetPosition, eased)
             /\ orbitTarget' = lerpVectors(c.startLookAt, c.targetLookAt, eased)
             /\ IF progress < One
                THEN /\ cameraAnimations' =
                           (cameraAnimations \ {c}) \cup {[c EXCEPT !.elapsed = elapsed]}
                     /\ UNCHANGED isAnimatingCamera
                ELSE /\ UNCHANGED isAnimatingCamera
                     /\ cameraAnimations' = cameraAnimations \ {c}
    /\ lastCalls' = <<>>
    /\ UNCHANGED <<uiManager, scrollVars, unloadedRequested, resumeTimerPending,
                   galleryVars, loaderVars, innerWidth, controlsVariant,
                   isAutoRotating, mouseInteraction, dragVars>>

\* one requestAnimationFrame callback of an animateCameraTo closure, gap
\* milliseconds after the previous one (or after the request)
CameraAnimate ==
    /\ \E c \in cameraAnimations, gap \in FrameGaps :
          LET elapsed  == c.elapsed + gap
              progress == Min(Quot(elapsed * Scale, c.duration), One)
              eased    == easeInOutCubic(progress)
          IN /\ cameraPosition' = lerpVectors(c.startPosition, c.targetPosition, eased)
             /\ orbitTarget' = lerpVectors(c.startLookAt, c.targetLookAt, eased)
             /\ IF progress < One
                THEN /\ cameraAnimations' =
                           (cameraAnimations \ {c}) \cup {[c EXCEPT !.elapsed = elapsed]}
                     /\ UNCHANGED isAnimatingCamera
                ELSE /\ isAnimatingCamera' = FALSE
                     /\ cameraAnimations' = cameraAnimations \ {c}
    /\ lastCalls' = <<>>
    /\ UNCHANGED <<uiManager, scrollVars, unloadedRequested, resumeTimerPending,
                   galleryVars, loaderVars, innerWidth, controlsVariant,
                   isAutoRotating, mouseInteraction, dragVars>>

Next ==
    \/ LoadModelResolved
    \/ LoadModelRejected
    \/ ObserverCallback
    \/ SetActiveItemCall
    \/ ArrowKeyDown
    \/ ProgressDotClick
    \/ OnWindowResize
    \/ ResetViewRequest

Spec == Init /\ [][Next]_vars

(* --------------- the build with the zoom-enabled Controls ------------- *)

\* modelStates, activeModelId and spotlights after loadModels has loaded
\* items 0 .. n-1 (every load succeeding), before the activation of item 0
RECURSIVE loadedThrough(_, _)
loadedThrough(n, draws) ==
    IF n = 0
    THEN [modelStates |-> <<>>, activeModelId |-> NoModel, spotlights |-> <<>>]
    ELSE LET before  == loadedThrough(n - 1, draws)
             created == [i \in 0 .. (n - 1) |->
                            IF i = n - 1 THEN draws[n - 1] ELSE before.modelStates[i]]
         IN processModel(created, before.activeModelId,
                         [i \in 0 .. (n - 2) |-> before.spotlights[i]], n - 1)

InitReady ==
    /\ galleryPhase = "ready"
    /\ loadingIndex = NumItems
    /\ currentIndex = 0
    /\ scrollCurrentIndex = 0
    /\ innerWidth \in WindowWidths
    /\ \E draws \in [Items -> UNION {NewModelStates(i) : i \in Items}] :
          /\ \A i \in Items : draws[i] \in NewModelStates(i)
          /\ LET loaded == loadedThrough(NumItems, draws)
                 shown  == showModel(loaded.modelStates, loaded.activeModelId,
                                     loaded.spotlights, 0)
             IN /\ modelStates = shown.modelStates
                /\ activeModelId = shown.activeModelId
                /\ spotlights = shown.spotlights
    /\ controlsVariant = "zoomEnabled"
    /\ isAnimatingCamera = FALSE
    /\ isAutoRotating = TRUE
    /\ cameraPosition = Vec(0, 0, CameraDistance)
    /\ orbitTarget = Vec(0, 0, 0)
    /\ cameraAnimations = {}
    /\ mouseInteraction = NoInteraction
    /\ manualRotation = ManualRotationInit
    /\ autoRotation = AutoRotationInit
    /\ frames = 0
    /\ dragLog = NoDrag
    /\ lastCalls = <<>>
    /\ unloadedRequested = FALSE
    /\ resumeTimerPending = FALSE
    /\ uiManager = NoMessages
    /\ isThrottled = FALSE
    /\ pageYOffset = 0
    /\ scrollProgress = 0

NextCamera ==
    \/ ObserverCallback
    \/ SetActiveItemCall
    \/ ArrowKeyDown
    \/ ProgressDotClick
    \/ ResetViewRequest
    \/ CameraAnimate

SpecCamera == InitReady /\ [][NextCamera]_vars

\* requestAnimationFrame runs every scheduled callback of a visible page
SpecCameraFair == SpecCamera /\ WF_vars(CameraAnimate)

(* ------------------ pointer-driven rotation and frames ---------------- *)

Sensitivity == 50        \* manualRotation.sensitivity (0.05 rad per pixel)
Dampening == 950         \* manualRotation.dampening (0.95)
MaxSpeed == 50           \* manualRotation.maxSpeed (0.05 rad)
RotationSpeed == 10      \* MouseInteraction.rotationSpeed (0.01 rad per pixel)
PiThird == 1047          \* Math.PI / 3
OpacityThreshold == 10   \* currentOpacity < 0.01
PointerYs == {0, 200}    \* clientY of the pointer events
Buttons == {0, 2}        \* event.button
FrameDeltas == {16}      \* clock.getDelta() in milliseconds
Shakes == {2}            \* Math.sin(time * 2) * 0.002
PauseDeltas == {500, 1000}   \* clock.getDelta() of the frame after a pause

PointerEvents == [clientX : {0}, clientY : PointerYs, button : Buttons]

clamp(x, lo, hi) == Max(lo, Min(hi, x))

\* ModelLoader.onMouseDown
onMouseDown(mr, event) ==
    IF ~mr.enabled \/ event.button # 0 THEN mr
    ELSE [mr EXCEPT !.isDragging = TRUE,
                    !.lastMouseX = event.clientX, !.lastMouseY = event.clientY,
                    !.velocityX = 0, !.velocityY = 0]

\* ModelLoader.onMouseMove
onMouseMove(mr, event) ==
    IF ~mr.enabled \/ ~mr.isDragging THEN mr
    ELSE LET deltaX == event.clientX - mr.lastMouseX
             deltaY == event.clientY - mr.lastMouseY
         IN [mr EXCEPT !.velocityX = clamp(deltaX * Sensitivity, 0 - MaxSpeed, MaxSpeed),
                       !.velocityY = clamp(deltaY * Sensitivity, 0 - MaxSpeed, MaxSpeed),
                       !.lastMouseX = event.clientX, !.lastMouseY = event.clientY]

\* ModelLoader.onMouseUp, onMouseLeave and onTouchEnd
onMouseUp(mr) == IF ~mr.enabled THEN mr ELSE [mr EXCEPT !.isDragging = FALSE]

\* ModelLoader.onTouchStart with one touch point
onTouchStart(mr, touch) ==
    IF ~mr.enabled THEN mr
    ELSE [mr EXCEPT !.isDragging = TRUE,
                    !.lastMouseX = touch.clientX, !.lastMouseY = touch.clientY,
                    !.velocityX = 0, !.velocityY = 0]

\* ModelLoader.onTouchMove with one touch point
onTouchMove(mr, touch) ==
    IF ~mr.enabled \/ ~mr.isDragging THEN mr
    ELSE [mr EXCEPT !.velocityX = (touch.clientX - mr.lastMouseX) * Sensitivity,
                    !.velocityY = (touch.clientY - mr.lastMouseY) * Sensitivity,
                    !.lastMouseX = touch.clientX, !.lastMouseY = touch.clientY]

\* MouseInteraction.performRaycast can return the active model
CanHitActive ==
    /\ activeModelId \in DOMAIN modelStates
    /\ modelStates[activeModelId].modelObject
    /\ modelStates[activeModelId].visible

Hits == IF CanHitActive THEN BOOLEAN ELSE {FALSE}

\* MouseInteraction.rotateActiveModel
rotateActiveModel(states, activeModel, deltaX, deltaY) ==
    IF activeModel = NoModel \/ activeModel \notin DOMAIN states
       \/ ~states[activeModel].modelObject
    THEN states
    ELSE [states EXCEPT ![activeModel].rotation =
            [x |-> clamp(@.x + deltaY * RotationSpeed, 0 - PiThird, PiThird),
             y |-> @.y + deltaX * RotationSpeed]]

\* MouseInteraction.onMouseDown; hit: the ray meets the active model
MouseInteraction_onMouseDown(mi, event, hit) ==
    IF event.button # 0 THEN mi
    ELSE IF hit
    THEN [mi EXCEPT !.mouseStart = [x |-> event.clientX, y |-> event.clientY],
                    !.isDragging = TRUE, !.activeModel = activeModelId,
                    !.isInteracting = TRUE]
    ELSE [mi EXCEPT !.mouseStart = [x |-> event.clientX, y |-> event.clientY]]

\* MouseInteraction.onMouseMove: the fields of MouseInteraction it writes
MouseInteraction_onMouseMove(mi, event, hit) ==
    IF mi.isDragging /\ mi.activeModel # NoModel
    THEN [mi EXCEPT !.mouseStart = [x |-> event.clientX, y |-> event.clientY]]
    ELSE [mi EXCEPT !.isHovering = hit]

\* MouseInteraction.onMouseUp: the fields of MouseInteraction it writes
MouseInteraction_onMouseUp(mi) ==
    IF mi.isDragging
    THEN [mi EXCEPT !.isDragging = FALSE, !.isInteracting = FALSE,
                    !.activeModel = NoModel]
    ELSE mi

\* MouseInteraction.onTouchStart with one touch point
MouseInteraction_onTouchStart(mi, touch, hit) ==
    IF hit
    THEN [mi EXCEPT !.mouseStart = [x |-> touch.clientX, y |-> touch.clientY],
                    !.isDragging = TRUE, !.activeModel = activeModelId,
                    !.isInteracting = TRUE]
    ELSE [mi EXCEPT !.mouseStart = [x |-> touch.clientX, y |-> touch.clientY]]

\* MouseInteraction.onTouchMove with one touch point
MouseInteraction_onTouchMove(mi, touch) ==
    IF mi.isDragging
    THEN [mi EXCEPT !.mouseStart = [x |-> touch.clientX, y |-> touch.clientY]]
    ELSE mi

\* MouseInteraction.onTouchEnd with no touch point left
MouseInteraction_onTouchEnd(mi) ==
    [mi EXCEPT !.isDragging = FALSE, !.isInteracting = FALSE, !.activeModel = NoModel]

\* the sample log of a pointer move that ModelLoader takes as a drag sample:
\* it counts the samples as long as each exceeded the clamp upward
logSample(log, mr, event, clamps) ==
    IF ~mr.enabled \/ ~mr.isDragging THEN log
    ELSE IF clamps /\ log.clamped
            /\ (event.clientY - mr.lastMouseY) * Sensitivity > MaxSpeed
    THEN [log EXCEPT !.moves = @ + 1, !.sinceSample = 0]
    ELSE NoCount

\* mousedown on the canvas: the listener of ModelLoader, then the one of
\* MouseInteraction with Gallery3D.onModelInteract('startInteraction')
CanvasMouseDown ==
    /\ \E event \in PointerEvents, hit \in Hits :
          /\ manualRotation' = onMouseDown(manualRotation, event)
          /\ mouseInteraction' = MouseInteraction_onMouseDown(mouseInteraction, event, hit)
          /\ isAutoRotating' = IF event.button = 0 /\ hit THEN FALSE ELSE isAutoRotating
          /\ lastCalls' = IF event.button = 0 /\ hit
                          THEN <<Call("startInteraction", activeModelId)>> ELSE <<>>
          /\ dragLog' = IF manualRotation.enabled /\ event.button = 0
                        THEN [NoDrag EXCEPT !.targetAtDown = manualRotation.targetRotationX]
                        ELSE dragLog
    /\ UNCHANGED <<uiManager, scrollVars, unloadedRequested, resumeTimerPending,
                   galleryVars, loaderVars, innerWidth,
                   controlsVariant, cameraVars, autoRotation, frames>>

\* mousemove on the canvas
CanvasMouseMove ==
    /\ \E event \in PointerEvents, hit \in Hits :
          /\ manualRotation' = onMouseMove(manualRotation, event)
          /\ modelStates' =
                IF mouseInteraction.isDragging /\ mouseInteraction.activeModel # NoModel
                THEN rotateActiveModel(modelStates, mouseInteraction.activeModel,
                                       event.clientX - mouseInteraction.mouseStart.x,
                                       event.clientY - mouseInteraction.mouseStart.y)
                ELSE modelStates
          /\ mouseInteraction' = MouseInteraction_onMouseMove(mouseInteraction, event, hit)
          /\ dragLog' = logSample(dragLog, manualRotation, event, TRUE)
    /\ lastCalls' = <<>>
    /\ UNCHANGED <<uiManager, scrollVars, unloadedRequested, resumeTimerPending,
                   galleryVars, activeModelId, spotlights, innerWidth,
                   controlsVariant, cameraVars, isAutoRotating, autoRotation, frames>>

\* mouseup on the canvas, with onModelInteract('endInteraction')
CanvasMouseUp ==
    /\ manualRotation' = onMouseUp(manualRotation)
    /\ mouseInteraction' = MouseInteraction_onMouseUp(mouseInteraction)
    /\ lastCalls' = IF mouseInteraction.isDragging
                    THEN <<Call("endInteraction", NoModel)>> ELSE <<>>
    /\ resumeTimerPending' = (resumeTimerPending \/ mouseInteraction.isDragging)
    /\ UNCHANGED <<uiManager, scrollVars,
                   unloadedRequested, galleryVars, loaderVars, innerWidth, controlsVariant,
                   cameraVars, isAutoRotating, autoRotation, frames, dragLog>>

\* mouseleave on the canvas (only ModelLoader listens)
CanvasMouseLeave ==
    /\ manualRotation' = onMouseUp(manualRotation)
    /\ lastCalls' = <<>>
    /\ UNCHANGED <<uiManager, scrollVars, unloadedRequested, resumeTimerPending,
                   galleryVars, loaderVars, innerWidth, controlsVariant,
                   cameraVars, isAutoRotating, mouseInteraction, autoRotation, frames,
                   dragLog>>

\* touchstart with one touch point
CanvasTouchStart ==
    /\ \E touch \in PointerEvents, hit \in Hits :
          /\ manualRotation' = onTouchStart(manualRotation, touch)
          /\ mouseInteraction' = MouseInteraction_onTouchStart(mouseInteraction, touch, hit)
          /\ isAutoRotating' = IF hit THEN FALSE ELSE isAutoRotating
          /\ lastCalls' = IF hit THEN <<Call("startInteraction", activeModelId)>> ELSE <<>>
          /\ dragLog' = IF manualRotation.enabled
                        THEN NoCount
                        ELSE dragLog
    /\ UNCHANGED <<uiManager, scrollVars, unloadedRequested, resumeTimerPending,
                   galleryVars, loaderVars, innerWidth,
                   controlsVariant, cameraVars, autoRotation, frames>>

\* touchmove with one touch point
CanvasTouchMove ==
    /\ \E touch \in PointerEvents :
          /\ manualRotation' = onTouchMove(manualRotation, touch)
          /\ modelStates' =
                IF mouseInteraction.isDragging
                THEN rotateActiveModel(modelStates, mouseInteraction.activeModel,
                                       touch.clientX - mouseInteraction.mouseStart.x,
                                       touch.clientY - mouseInteraction.mouseStart.y)
                ELSE modelStates
          /\ mouseInteraction' = MouseInteraction_onTouchMove(mouseInteraction, touch)
          /\ dragLog' = logSample(dragLog, manualRotation, touch, FALSE)
    /\ lastCalls' = <<>>
    /\ UNCHANGED <<uiManager, scrollVars, unloadedRequested, resumeTimerPending,
                   galleryVars, activeModelId, spotlights, innerWidth,
                   controlsVariant, cameraVars, isAutoRotating, autoRotation, frames>>

\* touchend with no touch point left, with onModelInteract('endInteraction')
CanvasTouchEnd ==
    /\ manualRotation' = onMouseUp(manualRotation)
    /\ mouseInteraction' = MouseInteraction_onTouchEnd(mouseInteraction)
    /\ lastCalls' = <<Call("endInteraction", NoModel)>>
    /\ resumeTimerPending' = TRUE
    /\ UNCHANGED <<uiManager, scrollVars,
                   unloadedRequested, galleryVars, loaderVars, innerWidth, controlsVariant,
                   cameraVars, isAutoRotating, autoRotation, frames, dragLog>>

AutoRotateSpeed == 500   \* settings.autoRotateSpeed (0.5)

\* Controls.setAutoRotateSpeed: the new isAutoRotating
setAutoRotateSpeed(speed) == speed > 0

\* a 2 s timer set by onModelInteract('endInteraction') fires; timers set by
\* other releases may still be waiting
ResumeTimerFires ==
    /\ resumeTimerPending
    /\ resumeTimerPending' \in BOOLEAN
    /\ isAutoRotating' = IF isAutoRotating THEN setAutoRotateSpeed(AutoRotateSpeed)
                         ELSE isAutoRotating
    /\ lastCalls' = <<Call("resumeAutoRotate", NoModel)>>
    /\ UNCHANGED <<uiManager, scrollVars,
                   unloadedRequested, galleryVars, loaderVars, innerWidth, controlsVariant,
                   cameraVars, mouseInteraction, dragVars>>

\* ModelLoader.updateManualRotation: the fields of ModelLoader.manualRotation
updateManualRotation(mr, delta) ==
    LET velocityX == Quot(mr.velocityX * Dampening, Scale)
        velocityY == Quot(mr.velocityY * Dampening, Scale)
        targetRotationY == mr.targetRotationY + velocityX
        targetRotationX == mr.targetRotationX + velocityY
    IN [mr EXCEPT !.velocityX = velocityX, !.velocityY = velocityY,
                  !.targetRotationY = targetRotationY,
                  !.targetRotationX = targetRotationX,
                  !.currentRotationX = lerp(@, targetRotationX, delta * 8),
                  !.currentRotationY = lerp(@, targetRotationY, delta * 8)]

\* ModelLoader.applyManualRotationToModel
applyManualRotationToModel(st, mr) ==
    IF ~st.modelObject THEN st
    ELSE [st EXCEPT !.rotation =
            [x |-> st.manualRotation.baseRotationX + mr.currentRotationX,
             y |-> st.manualRotation.baseRotationY + mr.currentRotationY]]

\* ModelLoader.applyAutoRotationToModel
applyAutoRotationToModel(st, ar, delta) ==
    IF ~st.modelObject THEN st
    ELSE LET currentRotationY == st.autoRotation.currentRotationY
                                   + Quot(ar.speed * ar.direction * delta, Scale)
         IN [st EXCEPT !.autoRotation.currentRotationY = currentRotationY,
                       !.rotation = [x |-> st.autoRotation.baseRotationX,
                                     y |-> st.autoRotation.baseRotationY
                                             + currentRotationY]]

\* the body of the for loop of ModelLoader.update for one model
updateModel(st, delta) ==
    IF ~st.modelObject THEN st
    ELSE LET opacity  == lerp(st.currentOpacity, st.targetOpacity, delta * 3)
             currentX == lerp(st.currentX, st.targetX, delta * 4)
             hide     == opacity < OpacityThreshold /\ st.targetOpacity = 0
             visible  == IF hide THEN FALSE
                         ELSE IF st.targetOpacity > 0 THEN TRUE ELSE st.visible
         IN [st EXCEPT !.currentOpacity = IF hide THEN 0 ELSE opacity,
                       !.currentX = currentX, !.positionX = currentX,
                       !.visible = visible, !.objectVisible = visible]

\* updateAutoRotation turning every model, not the active one alone
updateAutoRotationAllModels(states, active, ar, delta) ==
    [i \in DOMAIN states |-> applyAutoRotationToModel(states[i], ar, delta)]

\* ModelLoader.updateAutoRotation (autoRotation.rotateActiveOnly is true)
updateAutoRotation(states, active, ar, delta) ==
    IF active # NoModel /\ active \in DOMAIN states
    THEN [states EXCEPT ![active] = applyAutoRotationToModel(@, ar, delta)]
    ELSE states

\* update with the auto-rotation run whether or not a drag is in progress
updateSpinningInDrag(states, active, mr, ar, delta) ==
    LET turned == IF mr.enabled /\ active # NoModel /\ active \in DOMAIN states
                  THEN [states EXCEPT ![active] =
                          applyManualRotationToModel(@, updateManualRotation(mr, delta))]
                  ELSE states
        spun   == IF ar.enabled
                  THEN updateAutoRotation(turned, active, ar, delta)
                  ELSE turned
    IN [i \in DOMAIN spun |-> updateModel(spun[i], delta)]

\* ModelLoader.update: the new modelStates
update(states, active, mr, ar, delta) ==
    LET turned == IF mr.enabled /\ active # NoModel /\ active \in DOMAIN states
                  THEN [states EXCEPT ![active] =
                          applyManualRotationToModel(@, updateManualRotation(mr, delta))]
                  ELSE states
        spun   == IF ar.enabled /\ ~mr.isDragging
                  THEN updateAutoRotation(turned, active, ar, delta)
                  ELSE turned
    IN [i \in DOMAIN spun |-> updateModel(spun[i], delta)]

\* animateSpotlights with the light's forward offset (+ 5) put on x instead of z
animateSpotlightsOffsetOnX(spots, states, delta) ==
    [i \in DOMAIN spots |->
        LET moved == IF i \in DOMAIN states /\ states[i].modelObject
                     THEN [spots[i] EXCEPT !.positionX = states[i].positionX + 5 * Scale,
                                           !.targetPositionX = states[i].positionX]
                     ELSE spots[i]
        IN [moved EXCEPT !.currentIntensity = lerp(@, moved.targetIntensity, delta * 3)]]

\* ModelLoader.updateSpotlightForModel in the loop of update, then animateSpotlights
animateSpotlights(spots, states, delta) ==
    [i \in DOMAIN spots |->
        LET moved == IF i \in DOMAIN states /\ states[i].modelObject
                     THEN [spots[i] EXCEPT !.positionX = states[i].positionX,
                                           !.targetPositionX = states[i].positionX]
                     ELSE spots[i]
        IN [moved EXCEPT !.currentIntensity = lerp(@, moved.targetIntensity, delta * 3)]]

\* the calls of one frame of Gallery3D.animate, in the order it makes them
FrameCalls ==
    <<Call("controls.update", NoModel), Call("modelLoader.update", NoModel),
      Call("renderer.render", NoModel)>>

\* one call of Gallery3D.animate with clock.getDelta() = delta:
\* Controls.update, then ModelLoader.update
animate(delta, shake) ==
    /\ cameraPosition' = IF isAutoRotating /\ ~isAnimatingCamera
                         THEN [cameraPosition EXCEPT !.y = @ + shake]
                         ELSE cameraPosition
    /\ manualRotation' = IF manualRotation.enabled
                         THEN updateManualRotation(manualRotation, delta)
                         ELSE manualRotation
    /\ modelStates' = update(modelStates, activeModelId, manualRotation,
                             autoRotation, delta)
    /\ spotlights' = animateSpotlights(spotlights, modelStates', delta)
    /\ frames' = frames + 1
    /\ dragLog' = IF dragLog.clamped /\ dragLog.moves > 0 /\ dragLog.sinceSample = 0
                  THEN [dragLog EXCEPT !.sinceSample = 1]
                  ELSE IF dragLog.clamped /\ dragLog.moves = 0
                  THEN dragLog
                  ELSE NoCount
    /\ lastCalls' = FrameCalls
    /\ UNCHANGED <<uiManager, scrollVars, unloadedRequested, resumeTimerPending,
                   galleryVars, activeModelId, innerWidth,
                   controlsVariant, isAnimatingCamera, isAutoRotating, orbitTarget,
                   cameraAnimations, mouseInteraction, autoRotation>>

\* one frame of the running page
AnimationFrame ==
    /\ galleryPhase = "ready"
    /\ frames < MaxFrames
    /\ \E delta \in FrameDeltas, shake \in Shakes : animate(delta, shake)

\* the first frame after the page was hidden: requestAnimationFrame was
\* paused and clock.getDelta() returns the whole pause
AnimationFrameAfterPause ==
    /\ galleryPhase = "ready"
    /\ frames < MaxFrames
    /\ \E delta \in PauseDeltas, shake \in Shakes : animate(delta, shake)

NextDrag ==
    \/ CanvasMouseDown
    \/ CanvasMouseMove
    \/ CanvasMouseUp
    \/ CanvasMouseLeave
    \/ CanvasTouchStart
    \/ CanvasTouchMove
    \/ CanvasTouchEnd
    \/ AnimationFrame

SpecDrag == InitReady /\ [][NextDrag]_vars

\* a mouse drag over the frame loop
NextSpin ==
    \/ CanvasMouseDown
    \/ CanvasMouseMove
    \/ CanvasMouseUp
    \/ AnimationFrame

SpecSpin == InitReady /\ [][NextSpin]_vars

\* keyboard navigation during a mouse drag
NextDragSwitch ==
    \/ CanvasMouseDown
    \/ CanvasMouseMove
    \/ ArrowKeyDown

SpecDragSwitch == InitReady /\ [][NextDragSwitch]_vars

\* mouse drags with the timers that resume the camera's auto-rotation
NextResume ==
    \/ CanvasMouseDown
    \/ CanvasMouseMove
    \/ CanvasMouseUp
    \/ ResumeTimerFires

SpecResume == InitReady /\ [][NextResume]_vars

\* a timer that is due fires
SpecResumeFair == SpecResume /\ WF_vars(ResumeTimerFires)

\* keyboard navigation over the frame loop of a page that can be hidden
NextFade ==
    \/ ArrowKeyDown
    \/ AnimationFrame
    \/ AnimationFrameAfterPause

SpecFade == InitReady /\ [][NextFade]_vars

\* mouse and touch drags of the active model between item switches
NextOwner ==
    \/ CanvasMouseDown
    \/ CanvasMouseUp
    \/ CanvasTouchStart
    \/ CanvasTouchEnd
    \/ ArrowKeyDown
    \/ SetActiveItemCall

SpecOwner == InitReady /\ [][NextOwner]_vars

(* ------------------------------ messages ------------------------------ *)

messageVars == <<galleryVars, loaderVars, innerWidth, controlsVariant, isAutoRotating,
                 cameraVars, mouseInteraction, dragVars, scrollVars,
                 unloadedRequested, resumeTimerPending>>

\* click on resetViewBtn
ResetViewButtonClick ==
    /\ galleryPhase = "ready"
    /\ uiManager.requested < MaxMessages
    /\ resetView(currentIndex)
    /\ uiManager' = requestSuccess(uiManager)
    /\ mouseInteraction' = reset(mouseInteraction)
    /\ lastCalls' = <<Call("resetView", currentIndex),
                      Call("animateCameraTo", currentIndex)>>
    /\ UNCHANGED <<scrollVars, unloadedRequested, resumeTimerPending,
                   galleryVars, loaderVars, innerWidth, controlsVariant,
                   isAutoRotating, autoRotation, frames, dragLog>>

\* an 'error' event on window (the listener of setupErrorHandling)
WindowErrorEvent ==
    /\ uiManager.requested < MaxMessages
    /\ uiManager' = requestError(uiManager)
    /\ lastCalls' = <<>>
    /\ UNCHANGED messageVars

\* click on errorClose; the button is on screen while errorMessage is
ErrorCloseClick ==
    /\ uiManager.display
    /\ uiManager.hideTimers < MaxHideTimers
    /\ uiManager' = hideError(uiManager)
    /\ lastCalls' = <<>>
    /\ UNCHANGED messageVars

\* the auto-hide timer of showError fires. Its delay is at least
\* SuccessDuration and every callback of hideError set before it is due
\* HideDelay after it was set, so none of those is still waiting.
ErrorTimeoutFires ==
    /\ uiManager.errorTimeout
    /\ uiManager.hideTimers = 0
    /\ uiManager' = hideError(uiManager)
    /\ lastCalls' = <<>>
    /\ UNCHANGED messageVars

\* the oldest waiting callback of hideError runs
HideErrorTimerFires ==
    /\ uiManager.hideTimers > 0
    /\ uiManager' = hideErrorCallback(uiManager)
    /\ lastCalls' = <<>>
    /\ UNCHANGED messageVars

NextMessages ==
    \/ ResetViewButtonClick
    \/ WindowErrorEvent
    \/ ErrorTimeoutFires
    \/ ErrorCloseClick
    \/ HideErrorTimerFires

SpecMessages == InitReady /\ [][NextMessages]_vars

\* a timer that is due fires
SpecMessagesFair ==
    SpecMessages /\ WF_vars(ErrorTimeoutFires) /\ WF_vars(HideErrorTimerFires)

(* ------------------------------- scroll ------------------------------- *)

\* a 'scroll' event on window: the page is at a new position
WindowScroll ==
    /\ galleryPhase = "ready"
    /\ \E top \in ScrollTops \ {pageYOffset} :
          /\ pageYOffset' = top
          /\ handleScroll(top)
    /\ lastCalls' = <<>>
    /\ UNCHANGED <<uiManager, unloadedRequested, resumeTimerPending, galleryVars,
                   loaderVars, innerWidth, controlsVariant, isAutoRotating,
                   cameraVars, mouseInteraction, dragVars>>

\* the 100 ms timer of handleScroll fires
ThrottleTimerFires ==
    /\ isThrottled
    /\ isThrottled' = FALSE
    /\ lastCalls' = <<>>
    /\ UNCHANGED <<uiManager, pageYOffset, scrollProgress, unloadedRequested,
                   resumeTimerPending, galleryVars, loaderVars, innerWidth,
                   controlsVariant, isAutoRotating, cameraVars, mouseInteraction,
                   dragVars>>

NextScroll ==
    \/ WindowScroll
    \/ ThrottleTimerFires
    \/ OnWindowResize

SpecScroll == InitReady /\ [][NextScroll]_vars

\* a timer that is due fires
SpecScrollFair == SpecScroll /\ WF_vars(ThrottleTimerFires)

(* =============================== claims =============================== *)

Range(seq) == { seq[n] : n \in 1 .. Len(seq) }

OpaqueTargets == { i \in DOMAIN modelStates : modelStates[i].targetOpacity = One }

\* what an activation may change in the loader, per model
Presentation ==
    [i \in DOMAIN modelStates |->
        <<modelStates[i].targetOpacity, modelStates[i].visible>>]

SpotlightTargets == [i \in DOMAIN spotlights |-> spotlights[i].targetIntensity]

\* the awaited load of item i ended without a model object
LoadFailed(i) ==
    i \in DOMAIN modelStates /\ i < loadingIndex /\ ~modelStates[i].modelObject

\* C1: as long as every activation request named a loaded model, at most one
\* ModelState has targetOpacity = 1.
C1_SingleOpaqueTarget ==
    (~unloadedRequested) => Cardinality(OpaqueTargets) <= 1

\* C2: a switchToItem(j) that passes its guard, for a loaded j other than the
\* current index i, leaves ModelState(i).targetOpacity = 0, ModelState(j)
\* with targetOpacity = 1 and visible, j the current index and the active
\* model, and the spotlights retargeted to j.
C2_SwitchEffect ==
    [][\A j \in Items :
          (Call("itemActivated", j) \in Range(lastCalls') /\ j # currentIndex /\ Loaded(j))
          => /\ currentIndex \in DOMAIN modelStates'
                   => modelStates'[currentIndex].targetOpacity = 0
             /\ modelStates'[j].targetOpacity = One
             /\ modelStates'[j].visible
             /\ currentIndex' = j
             /\ activeModelId' = j
             /\ \A i \in DOMAIN spotlights' :
                   spotlights'[i].targetIntensity =
                       IF i = j THEN spotlights'[i].originalIntensity ELSE 0]_vars

\* C3: a switch to j made while no camera animation is running starts one
\* toward the framing of j.
C3_SwitchStartsTransition ==
    [][\A j \in Items :
          (Call("itemActivated", j) \in Range(lastCalls') /\ j # currentIndex
             /\ cameraAnimations = {})
          => \E c \in cameraAnimations' :
                /\ c.targetPosition = framingPosition(innerWidth, j)
                /\ c.targetLookAt = framingLookAt(innerWidth, j)
                /\ c.elapsed = 0]_vars

\* C4: asking switchToItem for the gallery's current index, or setActiveItem
\* for the scroll handler's current index, changes neither the current
\* index, the active model, any targetOpacity, any spotlight target nor the
\* camera, and notifies no listener.
C4_ReactivationIsNoOp ==
    [][\A k \in Items :
          /\ (Call("switchToItem", k) \in Range(lastCalls') /\ k = currentIndex)
                => /\ UNCHANGED <<currentIndex, activeModelId, Presentation,
                                  SpotlightTargets, cameraVars>>
                   /\ Call("itemActivated", k) \notin Range(lastCalls')
          /\ (Call("setActiveItem", k) \in Range(lastCalls') /\ k = scrollCurrentIndex)
                => /\ UNCHANGED <<scrollCurrentIndex, currentIndex, activeModelId,
                                  Presentation, SpotlightTargets, cameraVars>>
                   /\ lastCalls' = <<Call("setActiveItem", k)>>]_vars

\* a request for the current index went all the way to switchToItem
C4_Witness ==
    \E k \in Items :
        /\ lastCalls = <<Call("setActiveItem", k), Call("onItemChange", k),
                         Call("switchToItem", k)>>
        /\ currentIndex = k
        /\ cameraAnimations # {}

\* C5: a switchToItem request for a model that is not loaded changes neither
\* the current index, the active model, any targetOpacity / visible nor any
\* spotlight target.
C5_UnloadedRequestDiscarded ==
    [][\A k \in Items :
          (Call("switchToItem", k) \in Range(lastCalls') /\ ~Loaded(k))
          => UNCHANGED <<currentIndex, activeModelId, Presentation, SpotlightTargets>>]_vars

\* C6: a model whose load failed is never the active model.
C6_FailedNeverActive ==
    \A i \in Items : LoadFailed(i) => activeModelId # i

\* C7: at most one camera animation is in flight, and an animateCameraTo
\* request made during it leaves its start, destination, duration and start
\* time as they were and starts no second callback chain.
C7_SingleTransition ==
    /\ [](Cardinality(cameraAnimations) <= 1)
    /\ [][("animateCameraTo" \in Events(lastCalls') /\ cameraAnimations # {})
             => cameraAnimations' = cameraAnimations]_vars

\* a request arrived while an animation had already run a callback
C7_Witness ==
    /\ "animateCameraTo" \in Events(lastCalls)
    /\ \E c \in cameraAnimations : c.elapsed > 0

ActiveTilt ==
    modelStates[activeModelId].rotation.x
        - modelStates[activeModelId].manualRotation.baseRotationX

\* C9: the tilt of the active model stays within pi/3 of its base tilt, for
\* every sequence of mouse and touch moves and frames.
C9_TiltWithinLimit ==
    (activeModelId \in DOMAIN modelStates /\ modelStates[activeModelId].modelObject)
        => Abs(ActiveTilt) <= PiThird

\* C10: after the frame that follows N mouse samples of one drag, each above
\* the clamp, the target rotation has grown by N times the clamped maximum.
C10_ClampedSamplesAccumulate ==
    (dragLog.clamped /\ dragLog.moves > 0 /\ dragLog.sinceSample = 1)
        => manualRotation.targetRotationX - dragLog.targetAtDown
              = dragLog.moves * MaxSpeed

\* a frame of Gallery3D.animate is the step just taken
FrameDone == lastCalls = FrameCalls

\* C11: a frame processed while manualRotation.isDragging leaves every
\* autoRotation.currentRotationY as it was, and the rotation of the active
\* model is the one the manual rotation writes (base plus drag offset).
C11_DragSuppressesAutoRotation ==
    [][(lastCalls' = FrameCalls /\ manualRotation.isDragging)
       => /\ \A i \in DOMAIN modelStates :
                modelStates'[i].autoRotation.currentRotationY
                    = modelStates[i].autoRotation.currentRotationY
          /\ (activeModelId \in DOMAIN modelStates
                 /\ modelStates[activeModelId].modelObject)
             => modelStates'[activeModelId].rotation =
                   [x |-> modelStates[activeModelId].manualRotation.baseRotationX
                            + manualRotation'.currentRotationX,
                    y |-> modelStates[activeModelId].manualRotation.baseRotationY
                            + manualRotation'.currentRotationY]]_vars

\* a frame has run during a drag that had moved, with auto-rotation enabled
C11_Witness ==
    /\ FrameDone
    /\ manualRotation.isDragging
    /\ autoRotation.enabled
    /\ manualRotation.currentRotationX # 0
    /\ modelStates[activeModelId].modelObject

\* every autoRotation.currentRotationY is left as it was by the step
AutoRotationIdle ==
    \A i \in DOMAIN modelStates :
        modelStates'[i].autoRotation.currentRotationY
            = modelStates[i].autoRotation.currentRotationY

\* C12: the first frame after the release of a drag, taken while the drag
\* velocity is still at its maximum, advances no auto-rotation.
C12_AutoRotationWaitsAfterRelease ==
    [][(/\ lastCalls' = FrameCalls
        /\ "endInteraction" \in Events(lastCalls)
        /\ ~manualRotation.isDragging
        /\ Abs(manualRotation.velocityY) = MaxSpeed)
       => AutoRotationIdle]_vars

\* C13: a switch of the active model made while a drag is in progress
\* cancels the drag: no isDragging flag stays set, and the drag velocity and
\* the drag rotation offset the new active model starts with are zero.
C13_SwitchCancelsDrag ==
    [][\A j \in Items :
          (Call("itemActivated", j) \in Range(lastCalls') /\ manualRotation.isDragging)
          => /\ ~mouseInteraction'.isDragging
             /\ ~manualRotation'.isDragging
             /\ manualRotation'.velocityX = 0
             /\ manualRotation'.velocityY = 0
             /\ manualRotation'.currentRotationX = 0
             /\ manualRotation'.currentRotationY = 0]_vars

\* C14: in the frames after a drag has ended the tilt shown on the active
\* model is its base tilt plus the offset the drag has accumulated.
C14_DragOffsetKept ==
    (/\ FrameDone
     /\ ~manualRotation.isDragging
     /\ manualRotation.currentRotationX # 0
     /\ activeModelId \in DOMAIN modelStates
     /\ modelStates[activeModelId].modelObject)
    => ActiveTilt = manualRotation.currentRotationX

\* the models whose object is in the scene
LoadedModels == { i \in DOMAIN modelStates : modelStates[i].modelObject }

\* C15: every frame leaves the currentOpacity of every loaded model between
\* its previous value and its targetOpacity (no overshoot, no step away).
C15_OpacityApproachesTarget ==
    [][(lastCalls' = FrameCalls)
       => \A i \in LoadedModels :
             /\ Min(modelStates[i].currentOpacity, modelStates[i].targetOpacity)
                   <= modelStates'[i].currentOpacity
             /\ modelStates'[i].currentOpacity
                   <= Max(modelStates[i].currentOpacity, modelStates[i].targetOpacity)]_vars

\* C16: every currentOpacity lies in the closed range 0..1.
C16_OpacityInRange ==
    \A i \in DOMAIN modelStates :
        0 <= modelStates[i].currentOpacity /\ modelStates[i].currentOpacity <= One

\* C17: after every frame a model that is fading out is in the scene
\* (modelObject.visible) as long as its currentOpacity is at or above the
\* threshold, and is invisible with currentOpacity 0 otherwise.
C17_OutgoingVisibleWhileFading ==
    FrameDone
    => \A i \in LoadedModels :
          (modelStates[i].targetOpacity = 0)
          => IF modelStates[i].currentOpacity >= OpacityThreshold
             THEN modelStates[i].objectVisible
             ELSE ~modelStates[i].objectVisible /\ modelStates[i].currentOpacity = 0

\* C18: in the calls of a frame the camera (Controls.update) is advanced
\* after the model state (ModelLoader.update) and before the render call.
C18_CameraAfterModelsBeforeRender ==
    \A a, b \in 1 .. Len(lastCalls) :
        /\ (lastCalls[a].event = "modelLoader.update"
               /\ lastCalls[b].event = "controls.update") => a < b
        /\ (lastCalls[a].event = "controls.update"
               /\ lastCalls[b].event = "renderer.render") => a < b

\* C19: a step that activates model j (showModel, hence activateSpotlight(j))
\* while j has a spotlight leaves that spotlight's targetIntensity equal to
\* its originalIntensity and the targetIntensity of every other spotlight 0.
C19_ActivateSpotlight ==
    [][\A j \in Items :
          (Call("itemActivated", j) \in Range(lastCalls') /\ j \in DOMAIN spotlights')
          => \A i \in DOMAIN spotlights' :
                spotlights'[i].targetIntensity =
                    IF i = j THEN spotlights'[i].originalIntensity ELSE 0]_vars

\* a model other than item 0 was just activated while item 0, lit since its
\* load, has a spotlight too
C19_Witness ==
    /\ "itemActivated" \in Events(lastCalls)
    /\ activeModelId # 0
    /\ {0, activeModelId} \subseteq DOMAIN spotlights
    /\ spotlights[activeModelId].targetIntensity = SpotlightIntensity

\* C20: a frame processed while a drag is in progress leaves the camera's
\* y position unchanged (the idle offset of Controls.update is not added).
C20_NoShakeDuringDrag ==
    [][(lastCalls' = FrameCalls /\ manualRotation.isDragging)
       => cameraPosition'.y = cameraPosition.y]_vars

\* C21: a frame leaves the rotation and the autoRotation.currentRotationY of
\* every model other than the active one as they were.
C21_OnlyActiveModelTurns ==
    [][(lastCalls' = FrameCalls)
       => \A i \in DOMAIN modelStates :
             (i # activeModelId)
             => /\ modelStates'[i].rotation = modelStates[i].rotation
                /\ modelStates'[i].autoRotation.currentRotationY
                      = modelStates[i].autoRotation.currentRotationY]_vars

\* a frame has run after a model that had turned while active was left
C21_Witness ==
    /\ FrameDone
    /\ \E i \in LoadedModels :
          /\ i # activeModelId
          /\ modelStates[i].autoRotation.currentRotationY # 0
          /\ modelStates[activeModelId].autoRotation.currentRotationY # 0

\* the state of the program, without the logs kept for the properties
programVars ==
    <<galleryVars, loaderVars, innerWidth, controlsVariant, cameraVars,
      isAutoRotating, mouseInteraction, manualRotation, autoRotation>>

\* C22: a navigation request for an index below 0 or above the last index
\* changes nothing in the program's state.
C22_OutOfRangeIgnored ==
    [][\A k \in {0 - 1, NumItems} :
          (Call("navigateToItem", k) \in Range(lastCalls'))
          => UNCHANGED programVars]_vars

\* ArrowDown was pressed on the last item, reached by navigation
C22_Witness ==
    /\ lastCalls = <<Call("navigateToItem", NumItems)>>
    /\ currentIndex = NumItems - 1
    /\ activeModelId = NumItems - 1

\* C23: with auto-rotation enabled at start and disabled by nothing but
\* drags, every end of a drag on the model is followed, with no further
\* user action needed, by a state in which auto-rotation is enabled again.
C23_AutoRotationResumes ==
    [](("endInteraction" \in Events(lastCalls)) => <>isAutoRotating)

\* C24: a step emits 'startInteraction' exactly when it begins a drag of
\* MouseInteraction, and emits 'endInteraction' exactly when it ends one; so
\* no 'endInteraction' is emitted while no drag is in progress.
C24_NotificationsAlternate ==
    [][/\ ("startInteraction" \in Events(lastCalls'))
             <=> (~mouseInteraction.isDragging /\ mouseInteraction'.isDragging)
       /\ ("endInteraction" \in Events(lastCalls'))
             <=> (mouseInteraction.isDragging /\ ~mouseInteraction'.isDragging)]_vars

\* C25: the load of every item is awaited once and in order; a load that
\* failed stays failed (no retry), and the step that reports the failure of
\* item i goes on with the load of item i + 1 or, after the last item, with
\* the activation of item 0 and the rest of the start-up.
C25_FailedLoadSkipped ==
    /\ [][loadingIndex' \in {loadingIndex, loadingIndex + 1}]_vars
    /\ [][\A i \in Items :
             /\ LoadFailed(i) => LoadFailed(i)'
             /\ (Call("showError", i) \in Range(lastCalls'))
                => /\ loadingIndex = i /\ loadingIndex' = i + 1
                   /\ IF i + 1 < NumItems
                      THEN /\ galleryPhase' = "loading"
                           /\ i + 1 \in DOMAIN modelStates'
                      ELSE /\ galleryPhase' = "ready"
                           /\ activeModelId' = 0
                           /\ currentIndex' = 0]_vars

\* start-up is over with a failed load followed by a successful one
C25_Witness ==
    /\ galleryPhase = "ready"
    /\ activeModelId = 0
    /\ \E i, j \in Items : i < j /\ LoadFailed(i) /\ Loaded(j)

\* C26: each component of the stored drag velocity has magnitude at most
\* maxSpeed (the velocity is stored by the move samples and only decays
\* between them).
C26_VelocityWithinMaxSpeed ==
    /\ Abs(manualRotation.velocityX) <= MaxSpeed
    /\ Abs(manualRotation.velocityY) <= MaxSpeed

\* C27: after every frame the spotlight of each loaded model stands at, and
\* aims at, the x position the model has after that frame's blend.
C27_SpotlightFollowsModel ==
    FrameDone
    => \A i \in LoadedModels \cap DOMAIN spotlights :
          /\ modelStates[i].positionX = modelStates[i].currentX
          /\ spotlights[i].positionX = modelStates[i].positionX
          /\ spotlights[i].targetPositionX = modelStates[i].positionX

\* a frame has run with lit models on both sides of the scene
C27_Witness ==
    /\ FrameDone
    /\ \E i, j \in LoadedModels \cap DOMAIN spotlights :
          /\ modelStates[i].positionX > 0 /\ spotlights[i].positionX > 0
          /\ modelStates[j].positionX < 0 /\ spotlights[j].positionX < 0

\* C28: a resetView call made while a camera transition is in flight changes
\* neither the camera position nor the look-at target.
C28_ResetViewWaitsForTransition ==
    [][("resetView" \in Events(lastCalls') /\ isAnimatingCamera /\ cameraAnimations # {})
       => UNCHANGED <<cameraPosition, orbitTarget>>]_vars

\* C29: the animation callback that ends the camera transition leaves the
\* look-at target on the framing of the model that is active by then.
C29_CameraFramesActiveItem ==
    [][(cameraAnimations # {} /\ cameraAnimations' = {})
       => orbitTarget' = framingLookAt(innerWidth', activeModelId')]_vars

\* C30: once start-up is over, the active model of the loader is the model
\* of the gallery's current index.
C30_ActiveModelIsCurrentItem ==
    (galleryPhase = "ready") => activeModelId = currentIndex

\* a navigation after start-up has made an item other than item 0 current
C30_Witness ==
    /\ galleryPhase = "ready"
    /\ "itemActivated" \in Events(lastCalls)
    /\ currentIndex # 0
    /\ activeModelId = currentIndex

\* C31: once start-up is over the gallery and the scroll handler agree on
\* the current index.
C31_IndicesAgree ==
    (galleryPhase = "ready") => currentIndex = scrollCurrentIndex

\* C32: the ModelState of the active model, when there is one, has
\* targetOpacity 1 and is visible.
C32_ActiveStateShown ==
    (activeModelId # NoModel /\ activeModelId \in DOMAIN modelStates) =>
        /\ modelStates[activeModelId].targetOpacity = One
        /\ modelStates[activeModelId].visible

\* C33: a visible ModelState has targetOpacity 1, and at most one ModelState
\* is visible.
C33_OneVisibleState ==
    /\ \A id \in DOMAIN modelStates :
          modelStates[id].visible => modelStates[id].targetOpacity = One
    /\ Cardinality({ id \in DOMAIN modelStates : modelStates[id].visible }) <= 1

\* C36: a batch whose only entry is intersecting with a positive ratio and
\* belongs to an item other than the handler's current one makes that item
\* the active one and invokes onItemChange for it exactly once, whatever the
\* entry's distance from the viewport centre.
C36_SoleEntryActivates ==
    [][\A e \in Entries :
          ( /\ e.isIntersecting
            /\ e.intersectionRatio > 0
            /\ e.itemIndex # scrollCurrentIndex
            /\ handleIntersection(<<e>>) )
          => /\ scrollCurrentIndex' = e.itemIndex
             /\ Cardinality({ j \in DOMAIN lastCalls' :
                                lastCalls'[j] = Call("onItemChange", e.itemIndex) }) = 1]_vars

\* C38: in the drag-owning MouseInteraction isDragging, isInteracting and
\* "activeModel is set" are all true or all false, and while they are true
\* activeModel is the model loader's active model.
C38_DragFlagsAgree ==
    /\ mouseInteraction.isDragging = mouseInteraction.isInteracting
    /\ mouseInteraction.isDragging = (mouseInteraction.activeModel # NoModel)
    /\ mouseInteraction.isDragging => mouseInteraction.activeModel = activeModelId

\* a drag of item 1, begun after the gallery switched to it
C38_Witness ==
    /\ mouseInteraction.isDragging
    /\ mouseInteraction.activeModel = 1
    /\ currentIndex = 1

\* the messages waiting in errorQueue
Queued == { uiManager.errorQueue[j].message : j \in DOMAIN uiManager.errorQueue }

\* C34: messages go on screen in the order they were requested, and with
\* timers that fire every message waiting in the queue gets on screen.
C34_MessagesInOrder ==
    /\ [](\A i \in DOMAIN uiManager.displayed : uiManager.displayed[i] = i)
    /\ \A m \in 1 .. MaxMessages :
          (m \in Queued) ~> (uiManager.display /\ uiManager.errorText = m)

\* the third message is on screen after the two before it, and it had waited
C34_Witness ==
    /\ uiManager.display
    /\ uiManager.errorText = 3
    /\ uiManager.fromQueue
    /\ uiManager.displayed = <<1, 2, 3>>

\* C35: isShowingError is true whenever a message is on screen, and a message
\* on screen is not hidden or replaced before its own hide is requested.
C35_HiddenOnlyOnRequest ==
    /\ [](uiManager.display => uiManager.isShowingError)
    /\ [][(uiManager.display /\ (~uiManager.display'
                                   \/ uiManager.errorText' # uiManager.errorText))
             => uiManager.hideRequested]_vars

\* C37: once the scroll events stop, the progress indicator ends up at the
\* height of the page's final scroll position.
C37_LastScrollProcessed ==
    (<>[][FALSE]_pageYOffset)
        => <>[](scrollProgress = updateScrollProgress(pageYOffset))

====
